---- MODULE Spec2Model ----
(***************************************************************************)
(* A model of riskcli's metric engine (src/riskcli/metrics.py).            *)
(*                                                                         *)
(* Numbers are exact: a float is a normalised rational [k |-> "q", n, d],  *)
(* or one of the IEEE specials NaN, +inf, -inf; Python's None is a value   *)
(* of its own.  Square roots and fractional powers that leave the          *)
(* rationals are kept in a normal form (Surd, PowM1) whose zero test and   *)
(* sign are exact.  Float rounding is not modelled.                        *)
(*                                                                         *)
(* Every function of the engine is pure, so each of its specifications     *)
(* draws the arguments of one call in Init and has the call as its action. *)
(*                                                                         *)
(* The surrounding program (data.py, cli.py, report.py) has state: the     *)
(* module-level _CACHE of data.py, the clock time.time() reads, the state  *)
(* dictionary of the interactive menu, and what an observer has seen so    *)
(* far (provider downloads, calls and their outcomes), kept in history.    *)
(***************************************************************************)
EXTENDS Integers, Sequences, FiniteSets, TLC

VARIABLES pc, args, result, history, CACHE, now, state

vars == <<pc, args, result, history, CACHE, now, state>>

\* the state outside the metric engine
session == <<history, CACHE, now, state>>

\* _CACHE: Dict[tuple, tuple] = {} at import; no menu has run
NoSession ==
  /\ history = <<>>
  /\ CACHE = <<>>
  /\ now = 0
  /\ state = [k |-> "none"]

(***************************************************************************)
(* Bounds of the model and constants of the program.                       *)
(***************************************************************************)
MaxLen == 4
MaxObs == 103
MaxMissing == 2
MaxT == 3
MaxRows == 3

TRADING_DAYS == 252
\* historical_var_cvar: the smallest sample it accepts
MIN_VAR_OBS == 100

(***************************************************************************)
(* Exact arithmetic.                                                       *)
(***************************************************************************)
Abs(x) == IF x < 0 THEN -x ELSE x

RECURSIVE GCD(_, _)
GCD(a, b) == IF b = 0 THEN a ELSE GCD(b, a % b)

Q(n, d) ==
  LET g == GCD(Abs(n), Abs(d))
      s == IF d < 0 THEN -1 ELSE 1
  IN  [k |-> "q", n |-> (s * n) \div g, d |-> (s * d) \div g]

NaN == [k |-> "nan"]
Inf == [k |-> "inf"]
NInf == [k |-> "ninf"]
None == [k |-> "none"]
Zero == Q(0, 1)
One == Q(1, 1)

IsNum(v) == v.k = "q"
IsNaN(v) == v.k = "nan"

QAdd(a, b) ==
  LET g == GCD(a.d, b.d)
  IN  Q(a.n * (b.d \div g) + b.n * (a.d \div g), (a.d \div g) * b.d)

QNeg(a) == [k |-> "q", n |-> -a.n, d |-> a.d]

QSub(a, b) == QAdd(a, QNeg(b))

QMul(a, b) ==
  LET g1 == GCD(Abs(a.n), b.d)
      g2 == GCD(Abs(b.n), a.d)
  IN  Q((a.n \div g1) * (b.n \div g2), (a.d \div g2) * (b.d \div g1))

QInv(a) == Q(a.d, a.n)

QDiv(a, b) == QMul(a, QInv(b))

QLt(a, b) == a.n * b.d < b.n * a.d

QLe(a, b) == a.n * b.d <= b.n * a.d

QAbs(a) == [k |-> "q", n |-> Abs(a.n), d |-> a.d]

QSign(a) == IF a.n > 0 THEN 1 ELSE IF a.n < 0 THEN -1 ELSE 0

(***************************************************************************)
(* IEEE-754 behaviour of the float operations the code applies to values   *)
(* that may be NaN or infinite.                                            *)
(***************************************************************************)
FNeg(a) ==
  CASE a.k = "q" -> QNeg(a)
    [] a.k = "inf" -> NInf
    [] a.k = "ninf" -> Inf
    [] OTHER -> NaN

FSub(a, b) ==
  CASE a.k = "nan" \/ b.k = "nan" -> NaN
    [] a.k = "q" /\ b.k = "q" -> QSub(a, b)
    [] a.k = b.k -> NaN
    [] a.k = "q" -> FNeg(b)
    [] OTHER -> a

FDiv(a, b) ==
  CASE a.k = "nan" \/ b.k = "nan" -> NaN
    [] a.k = "q" /\ b.k = "q" ->
         IF b.n # 0 THEN QDiv(a, b)
         ELSE IF a.n = 0 THEN NaN ELSE IF a.n > 0 THEN Inf ELSE NInf
    [] a.k = "q" -> Zero
    [] b.k = "q" -> IF (a.k = "inf") = (b.n >= 0) THEN Inf ELSE NInf
    [] OTHER -> NaN

\* a < b on floats; any comparison with NaN is false
FLt(a, b) ==
  CASE a.k = "nan" \/ b.k = "nan" -> FALSE
    [] a.k = "q" /\ b.k = "q" -> QLt(a, b)
    [] a.k = b.k -> FALSE
    [] OTHER -> a.k = "ninf" \/ b.k = "inf"

FGe(a, b) == a.k # "nan" /\ b.k # "nan" /\ ~FLt(a, b)

FAbs(a) ==
  CASE a.k = "q" -> QAbs(a)
    [] a.k = "nan" -> NaN
    [] OTHER -> Inf

(***************************************************************************)
(* pandas / numpy series operations, on sequences of floats.               *)
(***************************************************************************)
dropna(s) == SelectSeq(s, LAMBDA v : v.k # "nan")

SortNum(s) == SortSeq(s, LAMBDA a, b : QLt(a, b))

\* Series.quantile(q) and numpy.percentile, linear interpolation, on a
\* non-empty series of numbers: q = qn/qd
Quantile(s, qn, qd) ==
  LET a == SortNum(s)
      pos == qn * (Len(a) - 1)
      lo == pos \div qd
      fr == Q(pos % qd, qd)
  IN  IF fr.n = 0 THEN a[lo + 1]
      ELSE QAdd(a[lo + 1], QMul(fr, QSub(a[lo + 2], a[lo + 1])))

\* the product of s[lo..hi], by halves
RECURSIVE ProdRange(_, _, _)
ProdRange(s, lo, hi) ==
  IF lo > hi THEN One
  ELSE IF lo = hi THEN s[lo]
  ELSE LET mid == (lo + hi) \div 2
       IN  QMul(ProdRange(s, lo, mid), ProdRange(s, mid + 1, hi))

cumprod(s) == [i \in 1..Len(s) |-> ProdRange(s, 1, i)]

\* the maximum of the numbers among s[lo..hi], NaN when there is none
RECURSIVE MaxRange(_, _, _)
MaxRange(s, lo, hi) ==
  IF lo > hi THEN NaN
  ELSE IF lo = hi THEN s[lo]
  ELSE LET mid == (lo + hi) \div 2
           l == MaxRange(s, lo, mid)
           r == MaxRange(s, mid + 1, hi)
       IN  IF l.k = "nan" THEN r
           ELSE IF r.k = "nan" THEN l
           ELSE IF FLt(l, r) THEN r ELSE l

\* Series.cummax(): a NaN entry stays NaN and does not enter the running maximum
cummax(s) == [i \in 1..Len(s) |-> IF s[i].k = "nan" THEN NaN ELSE MaxRange(s, 1, i)]

\* Series.max(): NaN entries are skipped; NaN when nothing is left
SeriesMax(s) == MaxRange(s, 1, Len(s))

(***************************************************************************)
(* max_drawdown                                                            *)
(***************************************************************************)
\* s.abs().quantile(0.95) <= 1.0
is_returns_like(s) == QLe(Quantile([i \in 1..Len(s) |-> QAbs(s[i])], 19, 20), One)

\* a mutant: every series is normalised as price levels
wealth_curve_as_prices(s) == [i \in 1..Len(s) |-> FDiv(s[i], s[1])]

\* (1 + s).cumprod() if is_returns_like else (s / s.iloc[0])
wealth_curve(s) ==
  IF is_returns_like(s)
  THEN cumprod([i \in 1..Len(s) |-> QAdd(One, s[i])])
  ELSE [i \in 1..Len(s) |-> FDiv(s[i], s[1])]

max_drawdown(series) ==
  LET s == dropna(series)
  IN  IF Len(s) = 0 THEN Zero
      ELSE
        LET wealth == wealth_curve(s)
            peak == cummax(wealth)
            drawdown == [i \in 1..Len(s) |-> FDiv(FSub(peak[i], wealth[i]), peak[i])]
            m == SeriesMax(drawdown)
        IN  IF FGe(m, Zero) THEN m ELSE FAbs(m)

(***************************************************************************)
(* Series.pct_change().  pandas before 3.0 forward-fills missing values    *)
(* first (fill_method="pad"); pandas 3.0 does not fill.  Which one runs    *)
(* is decided by the installed pandas, so `pad` is an input of the model.  *)
(***************************************************************************)
\* the last number among s[lo..hi], NaN when there is none
RECURSIVE LastValid(_, _, _)
LastValid(s, lo, hi) ==
  IF lo > hi THEN NaN
  ELSE IF lo = hi THEN s[lo]
  ELSE LET mid == (lo + hi) \div 2
           r == LastValid(s, mid + 1, hi)
       IN  IF r.k = "nan" THEN LastValid(s, lo, mid) ELSE r

ffill(s) == [i \in 1..Len(s) |-> LastValid(s, 1, i)]

pct_change(s, pad) ==
  LET data == IF pad THEN ffill(s) ELSE s
  IN  [i \in 1..Len(s) |->
         IF i = 1 THEN NaN ELSE FSub(FDiv(data[i], data[i - 1]), One)]

(***************************************************************************)
(* Calls of max_drawdown.                                                  *)
(***************************************************************************)
SeqsUpTo(S, n) == UNION {[1..k -> S] : k \in 0..n}

IntSeries(s) == [i \in 1..Len(s) |-> Q(s[i], 1)]

\* tests/test_metrics.py: the returns of [100, 110, 90, 95, 120]
ScenarioAReturns == dropna(pct_change(IntSeries(<<100, 110, 90, 95, 120>>), TRUE))

\* tests/test_metrics.py: test_mdd_is_positive_magnitude
TestPrices == IntSeries(<<100, 90, 80, 120, 110>>)

MddElems == {NaN, Q(-1, 2), Zero, Q(1, 2), One, Q(2, 1), Q(3, 1)}

MddInputs == SeqsUpTo(MddElems, MaxLen) \cup {ScenarioAReturns, TestPrices}

NoResult == [k |-> "pending"]

InitMdd ==
  /\ pc = "call"
  /\ args \in {[fn |-> "max_drawdown", series |-> s] : s \in MddInputs}
  /\ result = NoResult
  /\ NoSession

CallMaxDrawdown ==
  /\ pc = "call"
  /\ args.fn = "max_drawdown"
  /\ result' = max_drawdown(args.series)
  /\ pc' = "done"
  /\ UNCHANGED args
  /\ UNCHANGED session

NextMdd == CallMaxDrawdown

SpecMdd == InitMdd /\ [][NextMdd]_vars

(***************************************************************************)
(* Claims about max_drawdown.                                              *)
(***************************************************************************)
SetMax(S) == CHOOSE x \in S : \A y \in S : QLe(y, x)

NonDecreasing(w) ==
  \A i \in 1..Len(w) - 1 : w[i].k = "q" /\ w[i + 1].k = "q" /\ QLe(w[i], w[i + 1])

AllNum(w) == \A i \in 1..Len(w) : w[i].k = "q"

MddDone == pc = "done" /\ args.fn = "max_drawdown"

\* C2: for every input series max_drawdown returns a value >= 0, and exactly 0
\* whenever the wealth/price curve derived from the series is non-decreasing.
C2_NonNegative ==
  MddDone =>
    LET s == dropna(args.series)
    IN  /\ FGe(result, Zero)
        /\ (Len(s) > 0 /\ AllNum(wealth_curve(s)) /\ NonDecreasing(wealth_curve(s)))
             => result = Zero

\* The largest peak-to-trough fractional decline of a series of positive prices
PeakToTrough(p) ==
  SetMax({QDiv(QSub(p[x[1]], p[x[2]]), p[x[1]]) :
            x \in {y \in (1..Len(p)) \X (1..Len(p)) : y[1] <= y[2]}})

PositivePrices(s) == Len(s) > 0 /\ \A i \in 1..Len(s) : s[i].k = "q" /\ s[i].n > 0

\* C3: for a series of positive price levels max_drawdown is the largest
\* peak-to-trough decline max_{i<=j} (P_i - P_j)/P_i, hence > 0 whenever some
\* price lies below an earlier one.
C3_PeakToTrough ==
  (MddDone /\ PositivePrices(args.series)) =>
    LET p == args.series
    IN  /\ result = PeakToTrough(p)
        /\ (\E i, j \in 1..Len(p) : i < j /\ QLt(p[j], p[i])) => FLt(Zero, result)

\* wealth_i = prod_{j<=i} (1 + r_j), straight from the definition
RECURSIVE WealthAt(_, _)
WealthAt(r, i) == IF i = 0 THEN One ELSE QMul(WealthAt(r, i - 1), QAdd(One, r[i]))

PeakAt(r, i) == SetMax({WealthAt(r, j) : j \in 1..i})

DrawdownFormula(r) ==
  SetMax({QDiv(QSub(PeakAt(r, i), WealthAt(r, i)), PeakAt(r, i)) : i \in 1..Len(r)})

\* C4: for a return-like series (95th percentile of |r| <= 1) max_drawdown is
\* max_i (peak_i - wealth_i)/peak_i with wealth_i = prod_{j<=i}(1 + r_j) and
\* peak_i = max(wealth_0..wealth_i); for the returns of [100,110,90,95,120] it is 2/11.
C4_ReturnLike ==
  MddDone =>
    LET r == dropna(args.series)
    IN  /\ (Len(r) > 0 /\ is_returns_like(r)) => result = DrawdownFormula(r)
        /\ args.series = ScenarioAReturns => result = Q(2, 11)

C4_Witness ==
  /\ MddDone
  /\ args.series = ScenarioAReturns
  /\ is_returns_like(args.series)
  /\ result = Q(2, 11)

(***************************************************************************)
(* historical_var_cvar, with alpha = an/ad                                 *)
(***************************************************************************)
\* the sum of s[lo..hi], by halves: the evaluation stays shallow on long series
RECURSIVE SumRange(_, _, _)
SumRange(s, lo, hi) ==
  IF lo > hi THEN Zero
  ELSE IF lo = hi THEN s[lo]
  ELSE LET mid == (lo + hi) \div 2
       IN  QAdd(SumRange(s, lo, mid), SumRange(s, mid + 1, hi))

Sum(s) == SumRange(s, 1, Len(s))

\* the mean of a non-empty series of numbers
Mean(s) == QDiv(Sum(s), Q(Len(s), 1))

\* a mutant: the sample is measured before the missing values are dropped
historical_var_cvar_raw_size(returns, an, ad) ==
  LET r == dropna(returns)
  IN  IF Len(returns) < MIN_VAR_OBS THEN <<NaN, NaN>>
      ELSE
        LET var == Quantile(r, ad - an, ad)
            tail == SelectSeq(r, LAMBDA v : QLe(v, var))
            cvar == IF Len(tail) > 0 THEN Mean(tail) ELSE var
        IN  <<var, cvar>>

historical_var_cvar(returns, an, ad) ==
  LET r == dropna(returns)
  IN  IF Len(r) < MIN_VAR_OBS THEN <<NaN, NaN>>
      ELSE
        LET var == Quantile(r, ad - an, ad)
            tail == SelectSeq(r, LAMBDA v : QLe(v, var))
            cvar == IF Len(tail) > 0 THEN Mean(tail) ELSE var
        IN  <<var, cvar>>

(***************************************************************************)
(* Calls of historical_var_cvar: samples of 0..MaxObs observations that    *)
(* repeat the three returns of tests/test_metrics.py from some offset,    *)
(* with up to MaxMissing of them missing.                                  *)
(***************************************************************************)
TestReturns == <<Q(1, 100), Q(-2, 100), Q(5, 1000)>>

MissingEvery == 35

Sample(n, offset, missing) ==
  [i \in 1..n |->
     IF i % MissingEvery = 0 /\ i \div MissingEvery <= missing THEN NaN
     ELSE TestReturns[((i + offset) % 3) + 1]]

VarInputs == {Sample(n, o, m) : n \in 0..MaxObs, o \in 0..2, m \in 0..MaxMissing}

InitVar ==
  /\ pc = "call"
  /\ args \in {[fn |-> "historical_var_cvar", series |-> s] : s \in VarInputs}
  /\ result = NoResult
  /\ NoSession

CallVarCvar ==
  /\ pc = "call"
  /\ args.fn = "historical_var_cvar"
  /\ result' = historical_var_cvar(args.series, 95, 100)
  /\ pc' = "done"
  /\ UNCHANGED args
  /\ UNCHANGED session

NextVar == CallVarCvar

SpecVar == InitVar /\ [][NextVar]_vars

VarDone == pc = "done" /\ args.fn = "historical_var_cvar"

Observed(s) == Cardinality({i \in 1..Len(s) : s[i].k # "nan"})

\* C5: historical_var_cvar returns NaN for both VaR and CVaR whenever the series
\* has fewer than 100 non-missing observations, and two numbers whenever it has
\* 100 or more.
C5_ShortSample ==
  VarDone =>
    /\ Observed(args.series) < 100 => (result[1] = NaN /\ result[2] = NaN)
    /\ Observed(args.series) >= 100 => (result[1].k = "q" /\ result[2].k = "q")

C5_Witness ==
  /\ VarDone
  /\ Observed(args.series) = 100
  /\ Len(args.series) > 100
  /\ result[1].k = "q"
  /\ QLe(result[2], result[1])

(***************************************************************************)
(* Indexed series: a sequence of [t |-> timestamp, v |-> float], its       *)
(* timestamps strictly increasing.                                         *)
(***************************************************************************)
Values(s) == [i \in 1..Len(s) |-> s[i].v]

Index(s) == {s[i].t : i \in 1..Len(s)}

At(s, t) == IF t \in Index(s) THEN (CHOOSE r \in {s[i] : i \in 1..Len(s)} : r.t = t).v ELSE NaN

dropna_indexed(s) == SelectSeq(s, LAMBDA r : r.v.k # "nan")

LastT(s) == IF Len(s) = 0 THEN 0 ELSE s[Len(s)].t

Max2(a, b) == IF a < b THEN b ELSE a

(***************************************************************************)
(* base^(en/ed) - 1 for base >= 0, or for any base when the exponent is an *)
(* integer.  The value is kept exact: a rational where it is one, and      *)
(* otherwise the normal form [k |-> "powm1", b, en, ed], in which equal    *)
(* exponents and equal bases mean equal values.                            *)
(***************************************************************************)
PowM1(base, en, ed) ==
  LET g == GCD(en, ed)
      e1 == en \div g
      e2 == ed \div g
      b == IF e2 = 1 /\ e1 % 2 = 0 THEN QAbs(base) ELSE base
  IN  IF b = One THEN Zero
      ELSE IF b = Zero THEN Q(-1, 1)
      ELSE IF e1 = 1 /\ e2 = 1 THEN QSub(b, One)
      ELSE [k |-> "powm1", b |-> b, en |-> e1, ed |-> e2]

(***************************************************************************)
(* beta_alpha_r2                                                           *)
(***************************************************************************)
None3 == <<None, None, None>>

\* a mutant: the two series are paired by position, not by timestamp
aligned_by_position(asset_rets, bench_rets) ==
  LET n == IF Len(asset_rets) < Len(bench_rets) THEN Len(asset_rets) ELSE Len(bench_rets)
      rows == [i \in 1..n |-> [t |-> i, y |-> asset_rets[i].v, x |-> bench_rets[i].v]]
  IN  SelectSeq(rows, LAMBDA r : r.y.k # "nan" /\ r.x.k # "nan")

\* pd.concat([asset_rets, bench_rets], axis=1).dropna(): one row per timestamp
\* of either series, NaN where a series has none; then the rows with a NaN go
aligned(asset_rets, bench_rets) ==
  LET hi == Max2(LastT(asset_rets), LastT(bench_rets))
      idx == Index(asset_rets) \cup Index(bench_rets)
      concat == SelectSeq([t \in 1..hi |->
                             [t |-> t, y |-> At(asset_rets, t), x |-> At(bench_rets, t)]],
                          LAMBDA r : r.t \in idx)
  IN  SelectSeq(concat, LAMBDA r : r.y.k # "nan" /\ r.x.k # "nan")

Sq(a) == QMul(a, a)

Centered(x) == LET xm == Mean(x) IN [i \in 1..Len(x) |-> QSub(x[i], xm)]

Dot(a, b) == Sum([i \in 1..Len(a) |-> QMul(a[i], b[i])])

\* a mutant: the benchmark is not centred in the denominator
slope_uncentered(x, y) == QDiv(Dot(Centered(x), Centered(y)), Dot(x, x))

\* beta = sum((x - xm) * (y - ym)) / sum((x - xm) ** 2), the denominator not 0
slope(x, y) == QDiv(Dot(Centered(x), Centered(y)), Dot(Centered(x), Centered(x)))

\* a mutant: the unexplained share of the variance
r_squared_unexplained(ss_res, ss_tot) ==
  IF ss_tot # Zero THEN QDiv(ss_res, ss_tot) ELSE None

\* (1.0 - ss_res / ss_tot) if ss_tot != 0.0 else None
r_squared(ss_res, ss_tot) ==
  IF ss_tot # Zero THEN QSub(One, QDiv(ss_res, ss_tot)) ELSE None

\* the regression on the aligned rows (at least 2)
regression(df) ==
  LET x == [i \in 1..Len(df) |-> df[i].x]
      y == [i \in 1..Len(df) |-> df[i].y]
      xm == Mean(x)
      ym == Mean(y)
      denom == Dot(Centered(x), Centered(x))
  IN  IF denom = Zero THEN None3
      ELSE
        LET beta == slope(x, y)
            alpha_daily == QSub(ym, QMul(beta, xm))
            alpha_annual == PowM1(QAdd(One, alpha_daily), TRADING_DAYS, 1)
            y_hat == [i \in 1..Len(df) |-> QAdd(alpha_daily, QMul(beta, x[i]))]
            ss_res == Sum([i \in 1..Len(df) |-> Sq(QSub(y[i], y_hat[i]))])
            ss_tot == Dot(Centered(y), Centered(y))
        IN  <<beta, alpha_annual, r_squared(ss_res, ss_tot)>>

\* An optional series: Python's None, or a series
NoSeries == [present |-> FALSE, s |-> <<>>]

Some(s) == [present |-> TRUE, s |-> s]

beta_alpha_r2(asset_rets, bench_rets) ==
  IF ~bench_rets.present \/ Len(bench_rets.s) = 0 THEN None3
  ELSE
    LET df == aligned(asset_rets, bench_rets.s)
    IN  IF Len(df) < 2 THEN None3 ELSE regression(df)

(***************************************************************************)
(* Calls of beta_alpha_r2.  The benchmark is None or has, at each of the   *)
(* timestamps 1..MaxT, no entry, a missing value or a return; the asset    *)
(* has, at each timestamp, no entry, a missing value, or Ks times the      *)
(* benchmark's return there, with or without noise on its first return.    *)
(***************************************************************************)
NoEntry == [k |-> "absent"]

MkSeries(cells) ==
  SelectSeq([t \in 1..MaxT |-> [t |-> t, v |-> cells[t]]], LAMBDA r : r.v.k # "absent")

BenchVals == {Q(-1, 100), Q(2, 100)}

Ks == {Q(-1, 1), Zero, One, Q(2, 1)}

Noise == {Zero, Q(1, 100)}

BenchCells == [1..MaxT -> {NoEntry, NaN} \cup BenchVals]

AssetCells(b, kk, mask, noise) ==
  [t \in 1..MaxT |->
     CASE mask[t] = "absent" -> NoEntry
       [] mask[t] = "nan" -> NaN
       [] OTHER ->
            QAdd(QMul(kk, IF b[t].k = "q" THEN b[t] ELSE Q(1, 100)),
                 IF t = 1 THEN noise ELSE Zero)]

InitBeta ==
  /\ pc = "call"
  /\ \E b \in BenchCells, kk \in Ks, noise \in Noise, given \in BOOLEAN,
        mask \in [1..MaxT -> {"keep", "absent", "nan"}] :
        args = [fn |-> "beta_alpha_r2",
                asset_rets |-> MkSeries(AssetCells(b, kk, mask, noise)),
                bench_rets |-> IF given THEN Some(MkSeries(b)) ELSE NoSeries]
  /\ result = NoResult
  /\ NoSession

CallBetaAlphaR2 ==
  /\ pc = "call"
  /\ args.fn = "beta_alpha_r2"
  /\ result' = beta_alpha_r2(args.asset_rets, args.bench_rets)
  /\ pc' = "done"
  /\ UNCHANGED args
  /\ UNCHANGED session

NextBeta == CallBetaAlphaR2

SpecBeta == InitBeta /\ [][NextBeta]_vars

BetaDone == pc = "done" /\ args.fn = "beta_alpha_r2"

\* the timestamps at which a series holds a number
Present(s) == {s[i].t : i \in {j \in 1..Len(s) : s[j].v.k = "q"}}

Common == Present(args.asset_rets) \cap Present(args.bench_rets.s)

\* the rows of the inner join, in timestamp order
InnerJoin ==
  SelectSeq([t \in 1..MaxT |->
               [t |-> t, y |-> At(args.asset_rets, t), x |-> At(args.bench_rets.s, t)]],
            LAMBDA r : r.t \in Common)

\* C6: beta_alpha_r2 returns no value for beta, alpha and R2 when the benchmark
\* is absent or empty or fewer than 2 timestamps are present in both series; the
\* regression uses exactly the timestamps present in both series.
C6_InnerJoin ==
  BetaDone =>
    /\ (~args.bench_rets.present \/ Len(args.bench_rets.s) = 0 \/ Cardinality(Common) < 2)
         => result = None3
    /\ (args.bench_rets.present /\ Cardinality(Common) >= 2)
         => result = regression(InnerJoin)

\* a benchmark with an entry the asset lacks and an entry the asset has as NaN:
\* both are discarded and the regression runs on the two that remain
C6_Witness ==
  /\ BetaDone
  /\ Cardinality(Common) = 2
  /\ Index(args.asset_rets) # Index(args.bench_rets.s)
  /\ Cardinality(Index(args.asset_rets) \cup Index(args.bench_rets.s)) > 2
  /\ \E i \in 1..Len(args.asset_rets) : args.asset_rets[i].v = NaN
  /\ result[1].k = "q"

\* the aligned benchmark returns are not all equal
NonZeroVariance == \E i, j \in 1..Len(InnerJoin) : InnerJoin[i].x # InnerJoin[j].x

Proportional(kk) == \A i \in 1..Len(InnerJoin) : InnerJoin[i].y = QMul(kk, InnerJoin[i].x)

KTimesBench(kk) ==
  /\ BetaDone
  /\ args.bench_rets.present
  /\ Cardinality(Common) >= 2
  /\ NonZeroVariance
  /\ Proportional(kk)

\* C7 as stated: for any constant k, asset = k * benchmark over at least 2
\* aligned points of non-zero variance gives beta = k and R2 = 1.
C7_Original ==
  \A kk \in Ks : KTimesBench(kk) => (result[1] = kk /\ result[3] = One)

\* C7, amended: beta = k for every k; R2 = 1 for every k # 0; for k = 0 the asset
\* returns are all 0, SS_tot is 0 and R2 is None.
C7_Proportional ==
  \A kk \in Ks :
    KTimesBench(kk) =>
      /\ result[1] = kk
      /\ kk # Zero => result[3] = One
      /\ kk = Zero => result[3] = None

C7_Witness ==
  /\ KTimesBench(Q(2, 1))
  /\ Cardinality(Common) = MaxT
  /\ result[1] = Q(2, 1)
  /\ result[3] = One

Identical == \A i \in 1..Len(InnerJoin) : InnerJoin[i].y = InnerJoin[i].x

IdenticalSeries ==
  /\ BetaDone
  /\ args.bench_rets.present
  /\ Cardinality(Common) >= 2
  /\ Identical

\* C8 as stated: asset returns identical to the benchmark returns over at least
\* 2 aligned points give beta = 1, annualized alpha = 0 and R2 = 1.
C8_Original == IdenticalSeries => result = <<One, Zero, One>>

\* C8, amended: so they do when the returns are not all equal; when they are all
\* equal the benchmark variance is 0 and beta, alpha and R2 are all None.
C8_Identical ==
  IdenticalSeries =>
    /\ NonZeroVariance => result = <<One, Zero, One>>
    /\ ~NonZeroVariance => result = None3

C8_Witness ==
  /\ IdenticalSeries
  /\ NonZeroVariance
  /\ args.asset_rets = args.bench_rets.s
  /\ result = <<One, Zero, One>>

(***************************************************************************)
(* Values that leave the rationals.                                        *)
(*   Root(sq)        = sqrt(sq)       for sq >= 0                          *)
(*   OverRoot(a, sq) = a / sqrt(sq)   for sq > 0                           *)
(* Both are the rational 0 exactly when their value is 0.                  *)
(***************************************************************************)
Root(sq) == IF sq = Zero THEN Zero ELSE [k |-> "root", sq |-> sq]

OverRoot(a, sq) == IF a = Zero THEN Zero ELSE [k |-> "ratio", a |-> a, sq |-> sq]

Days == Q(TRADING_DAYS, 1)

(***************************************************************************)
(* Data frames: [present, index, cols], cols a function from the names of  *)
(* the columns the frame has to their values, one per row.                 *)
(***************************************************************************)
NoFrame == [present |-> FALSE]

Frame(index, cols) == [present |-> TRUE, index |-> index, cols |-> cols]

\* df.get("Adj Close") if "Adj Close" in df.columns else df["Close"]
price_column(df) ==
  IF "Adj Close" \in DOMAIN df.cols THEN df.cols["Adj Close"] ELSE df.cols["Close"]

Indexed(df, col) == [i \in 1..Len(df.index) |-> [t |-> df.index[i], v |-> col[i]]]

\* _daily_returns: price.pct_change().dropna()
daily_returns(df, pad) == dropna_indexed(Indexed(df, pct_change(price_column(df), pad)))

(***************************************************************************)
(* The statistics of a non-empty return series r (numbers only).           *)
(***************************************************************************)
\* a mutant: the population standard deviation (ddof=0)
annualized_vol_population(r) ==
  IF Len(r) < 1 THEN NaN
  ELSE Root(QMul(QDiv(Dot(Centered(r), Centered(r)), Q(Len(r), 1)), Days))

\* returns.std(ddof=1) * np.sqrt(TRADING_DAYS); the std of fewer than 2 values is NaN
annualized_vol(r) ==
  IF Len(r) < 2 THEN NaN
  ELSE Root(QMul(QDiv(Dot(Centered(r), Centered(r)), Q(Len(r) - 1, 1)), Days))

\* x / v for a rational x and v one of NaN, 0, Root(sq); x / 0.0 is nan or +-inf
OverVol(x, v) ==
  CASE v.k = "nan" -> NaN
    [] v.k = "root" -> OverRoot(x, v.sq)
    [] OTHER -> FDiv(x, v)

tail_ratio(r) ==
  LET high == Quantile(r, 95, 100)
      low == Quantile(r, 5, 100)
      denom == QAbs(low)
  IN  IF QLt(Zero, denom) THEN QDiv(high, denom) ELSE NaN

\* Series.skew(): NaN below 3 observations, 0 when all are equal; otherwise
\* sqrt(n(n-1))/(n-2) * (m3/n) / (m2/n)^1.5, kept as the sums that determine it
skew_of(r) ==
  LET d == Centered(r)
      m2 == Dot(d, d)
      m3 == Dot(d, [i \in 1..Len(d) |-> Sq(d[i])])
  IN  IF Len(r) < 3 THEN NaN
      ELSE IF m2 = Zero \/ m3 = Zero THEN Zero
      ELSE [k |-> "skew", n |-> Len(r), m2 |-> m2, m3 |-> m3]

\* Series.kurt(): NaN below 4 observations, 0 when all are equal
kurt_of(r) ==
  LET n == Len(r)
      d2 == [i \in 1..n |-> Sq(Centered(r)[i])]
      m2 == Sum(d2)
      m4 == Dot(d2, d2)
      adj == Q(3 * (n - 1) * (n - 1), (n - 2) * (n - 3))
      numerator == QMul(Q(n * (n + 1) * (n - 1), 1), m4)
      denominator == QMul(Q((n - 2) * (n - 3), 1), Sq(m2))
  IN  IF n < 4 THEN NaN
      ELSE IF denominator = Zero THEN Zero
      ELSE QSub(QDiv(numerator, denominator), adj)

\* (1.0 + rf) ** (1.0 / TRADING_DAYS) - 1.0.  An annual rate is 0 or
\* (1 + d)^252 - 1 for a rational daily rate d > -1, so the root is rational.
rf_daily_of(rf) ==
  IF rf.k = "q" THEN PowM1(QAdd(One, rf), 1, TRADING_DAYS)
  ELSE PowM1(rf.b, rf.en, rf.ed * TRADING_DAYS)

\* annual_return / mdd, mdd a positive number
OverDrawdown(annual_return, mdd) ==
  CASE annual_return.k = "q" -> QDiv(annual_return, mdd)
    [] annual_return.k = "nan" -> NaN
    [] OTHER -> [k |-> "div", a |-> annual_return, b |-> mdd]

\* a mutant: a missing volume counts as no trade (fillna(0) for dropna)
avg_daily_dollar_vol_filled(asset_df, prices) ==
  IF "Volume" \notin DOMAIN asset_df.cols
       \/ Len(dropna(asset_df.cols["Volume"])) = 0
  THEN Zero
  ELSE
    LET vol == Indexed(asset_df, asset_df.cols["Volume"])
        traded == [i \in 1..Len(prices) |->
                     IF At(vol, prices[i].t).k = "nan" THEN Zero
                     ELSE QMul(prices[i].v, At(vol, prices[i].t))]
    IN  IF Len(traded) = 0 THEN NaN ELSE Mean(traded)

\* lines 165-170
avg_daily_dollar_vol(asset_df, prices) ==
  IF "Volume" \notin DOMAIN asset_df.cols
       \/ Len(dropna(asset_df.cols["Volume"])) = 0
  THEN Zero
  ELSE
    LET vol == Indexed(asset_df, asset_df.cols["Volume"])
        traded == dropna([i \in 1..Len(prices) |->
                            IF At(vol, prices[i].t).k = "nan" THEN NaN
                            ELSE QMul(prices[i].v, At(vol, prices[i].t))])
    IN  IF Len(traded) = 0 THEN NaN ELSE Mean(traded)

ValueError == [raised |-> "ValueError"]

\* lines 127-188: the record, for a non-empty return series ar
metrics_record(asset_df, bench_df, rf, pad, ar) ==
  LET r == Values(ar)
      br == IF bench_df.present THEN Some(daily_returns(bench_df, pad)) ELSE NoSeries
      rf_daily == rf_daily_of(rf)
      excess == [i \in 1..Len(r) |-> QSub(r[i], rf_daily)]
      prices == dropna_indexed(Indexed(asset_df, price_column(asset_df)))
      n == Len(prices)
      annual_return ==
        IF n >= 2 THEN PowM1(QDiv(prices[n].v, prices[1].v), TRADING_DAYS, n) ELSE NaN
      ann_vol == annualized_vol(r)
      sharpe == IF ann_vol # Zero THEN OverVol(QMul(Mean(excess), Days), ann_vol) ELSE NaN
      shortfall == [i \in 1..Len(r) |-> IF QLt(excess[i], Zero) THEN excess[i] ELSE Zero]
      downside_ann == Root(QMul(Mean([i \in 1..Len(r) |-> Sq(shortfall[i])]), Days))
      sortino ==
        IF downside_ann # Zero THEN OverVol(QMul(Mean(excess), Days), downside_ann) ELSE NaN
      mdd == max_drawdown(Values(prices))
      calmar == IF FLt(Zero, mdd) THEN OverDrawdown(annual_return, mdd) ELSE None
      vc == historical_var_cvar(r, 95, 100)
      bar == IF br.present THEN beta_alpha_r2(ar, br) ELSE None3
  IN  [annual_return |-> annual_return,
       annual_vol |-> ann_vol,
       sharpe |-> sharpe,
       sortino |-> sortino,
       max_drawdown |-> mdd,
       calmar |-> calmar,
       var_95 |-> vc[1],
       cvar_95 |-> vc[2],
       tail_ratio |-> tail_ratio(r),
       skew |-> skew_of(r),
       excess_kurtosis |-> kurt_of(r),
       beta |-> bar[1],
       alpha |-> bar[2],
       r2 |-> bar[3],
       avg_daily_dollar_vol |-> avg_daily_dollar_vol(asset_df, prices)]

\* a mutant: an empty benchmark return series is an error too
compute_metrics_needs_benchmark(asset_df, bench_df, rf, pad) ==
  LET ar == daily_returns(asset_df, pad)
  IN  IF Len(ar) = 0 \/ (bench_df.present /\ Len(daily_returns(bench_df, pad)) = 0)
      THEN ValueError
      ELSE metrics_record(asset_df, bench_df, rf, pad, ar)

\* compute_metrics: the record, or ValueError when there are no asset returns
compute_metrics(asset_df, bench_df, rf, pad) ==
  LET ar == daily_returns(asset_df, pad)
  IN  IF Len(ar) = 0 THEN ValueError
      ELSE metrics_record(asset_df, bench_df, rf, pad, ar)

(***************************************************************************)
(* Calls of compute_metrics.  The asset frame has rows 1..n, n <= MaxRows, *)
(* each price missing or one of PriceVals, in "Adj Close" (beside a        *)
(* "Close" that differs) or in "Close" alone; its volume column is         *)
(* absent, all missing, missing on the odd rows, or full.  The benchmark   *)
(* is None, a frame without rows, the asset's own prices at the same or at *)
(* later timestamps, a constant price, or prices that alternate.  The      *)
(* annual risk-free rate is 0 or compounds a daily rate of DailyRates.     *)
(***************************************************************************)
PriceVals == {One, Q(2, 1)}

DailyRates == {Q(-1, 100), Q(1, 100)}

Annual(d) == PowM1(QAdd(One, d), TRADING_DAYS, 1)

RiskFree == {Zero} \cup {Annual(d) : d \in DailyRates}

Const(n, v) == [i \in 1..n |-> v]

Ticks(n, from) == [i \in 1..n |-> from + i - 1]

AssetFrame(prices, adj, volume) ==
  LET n == Len(prices)
      px == IF adj THEN [c \in {"Adj Close", "Close"} |->
                           IF c = "Close" THEN Const(n, Q(7, 1)) ELSE prices]
            ELSE [c \in {"Close"} |-> prices]
      vol == CASE volume = "allnan" -> Const(n, NaN)
               [] volume = "gaps" -> [i \in 1..n |-> IF i % 2 = 1 THEN NaN ELSE Q(10 * i, 1)]
               [] OTHER -> [i \in 1..n |-> Q(10 * i, 1)]
      cols == IF volume = "none" THEN px
              ELSE [c \in DOMAIN px \cup {"Volume"} |-> IF c = "Volume" THEN vol ELSE px[c]]
  IN  Frame(Ticks(n, 1), cols)

CloseFrame(index, prices) == Frame(index, [c \in {"Close"} |-> prices])

BenchKinds == {"none", "empty", "same", "shifted", "flat", "other"}

BenchFrame(kind, prices) ==
  CASE kind = "none" -> NoFrame
    [] kind = "empty" -> CloseFrame(<<>>, <<>>)
    [] kind = "same" -> CloseFrame(Ticks(Len(prices), 1), prices)
    [] kind = "shifted" -> CloseFrame(Ticks(Len(prices), MaxRows + 1), prices)
    [] kind = "flat" -> CloseFrame(Ticks(MaxRows + 1, 1), Const(MaxRows + 1, One))
    [] OTHER -> CloseFrame(Ticks(MaxRows + 1, 1),
                           [i \in 1..MaxRows + 1 |-> Q(1 + (i % 2), 1)])

Init ==
  /\ pc = "call"
  /\ \E prices \in SeqsUpTo({NaN} \cup PriceVals, MaxRows), adj \in BOOLEAN,
        volume \in {"none", "allnan", "gaps", "full"}, kind \in BenchKinds,
        rf \in RiskFree, pad \in BOOLEAN :
        args = [fn |-> "compute_metrics",
                asset_df |-> AssetFrame(prices, adj, volume),
                bench_df |-> BenchFrame(kind, prices),
                rf |-> rf,
                pad |-> pad]
  /\ result = NoResult
  /\ NoSession

CallComputeMetrics ==
  /\ pc = "call"
  /\ args.fn = "compute_metrics"
  /\ result' = compute_metrics(args.asset_df, args.bench_df, args.rf, args.pad)
  /\ pc' = IF result' = ValueError THEN "raised" ELSE "done"
  /\ UNCHANGED args
  /\ UNCHANGED session

Next == CallComputeMetrics

Spec == Init /\ [][Next]_vars

(***************************************************************************)
(* Claims about compute_metrics.                                           *)
(***************************************************************************)
MetricsCalled == pc \in {"done", "raised"} /\ args.fn = "compute_metrics"

MetricsFields ==
  {"annual_return", "annual_vol", "sharpe", "sortino", "max_drawdown", "calmar",
   "var_95", "cvar_95", "tail_ratio", "skew", "excess_kurtosis", "beta", "alpha",
   "r2", "avg_daily_dollar_vol"}

AssetPrices == price_column(args.asset_df)

ValidPrices == Cardinality({i \in 1..Len(AssetPrices) : AssetPrices[i].k # "nan"})

\* C1: compute_metrics returns a complete Metrics record (15 fields) or fails
\* with the insufficient-data error; it fails if and only if fewer than 2
\* non-missing prices remain in the asset price series.
C1_FailsIffTooFewPrices ==
  MetricsCalled =>
    /\ (pc = "raised") <=> (ValidPrices < 2)
    /\ pc = "raised" => result = ValueError
    /\ pc = "done" => DOMAIN result = MetricsFields

NoValue(v) == v = NaN \/ v = None

ConstantPrices ==
  /\ Len(AssetPrices) >= 2
  /\ \A i \in 1..Len(AssetPrices) : AssetPrices[i].k = "q" /\ AssetPrices[i] = AssetPrices[1]

\* the risk-free rate is positive: its daily rate is
RfPositive == QLt(Zero, rf_daily_of(args.rf))

\* C9 as stated: for a constant price series of length n >= 2 and any annual
\* risk-free rate, annual_return = 0, annual_vol = 0 and sharpe, sortino and
\* calmar are all no value.
C9_Original ==
  (MetricsCalled /\ ConstantPrices) =>
    /\ pc = "done"
    /\ result.annual_return = Zero
    /\ result.annual_vol = Zero
    /\ NoValue(result.sharpe)
    /\ NoValue(result.sortino)
    /\ NoValue(result.calmar)

\* C9, amended: annual_return = 0 and sharpe and calmar are no value; annual_vol
\* is 0 for n >= 3 and NaN for n = 2 (one return has no sample deviation);
\* sortino is no value for a risk-free rate <= 0 and the number
\* (-rf_daily * 252) / (rf_daily * sqrt(252)) for a risk-free rate > 0.
C9_ConstantPrices ==
  (MetricsCalled /\ ConstantPrices) =>
    /\ pc = "done"
    /\ result.annual_return = Zero
    /\ NoValue(result.sharpe)
    /\ NoValue(result.calmar)
    /\ Len(AssetPrices) >= 3 => result.annual_vol = Zero
    /\ Len(AssetPrices) = 2 => result.annual_vol = NaN
    /\ ~RfPositive => result.sortino = NaN
    /\ RfPositive =>
         LET d == rf_daily_of(args.rf)
         IN  result.sortino = OverRoot(QMul(QNeg(d), Days), QMul(Sq(d), Days))

C9_Witness ==
  /\ MetricsCalled
  /\ ConstantPrices
  /\ Len(AssetPrices) = 3
  /\ args.rf = Zero
  /\ result.annual_return = Zero
  /\ result.annual_vol = Zero
  /\ result.sharpe = NaN
  /\ result.sortino = NaN
  /\ result.calmar = None

BenchmarkFields == {"beta", "alpha", "r2"}

\* C10: the benchmark affects only beta, alpha and r2: with the asset frame and
\* the risk-free rate fixed, the other 12 fields are those of the call without
\* benchmark, whatever the benchmark is, and the call fails only if that one does.
C10_BenchmarkFrame ==
  MetricsCalled =>
    LET base == compute_metrics(args.asset_df, NoFrame, args.rf, args.pad)
    IN  /\ (result = ValueError) <=> (base = ValueError)
        /\ result # ValueError =>
             \A f \in MetricsFields \ BenchmarkFields : result[f] = base[f]

C10_Witness ==
  /\ MetricsCalled
  /\ pc = "done"
  /\ args.bench_df.present
  /\ result.beta.k = "q"
  /\ result.r2.k = "q"
  /\ result.annual_vol.k = "root"

(***************************************************************************)
(* The liquidity proxy.                                                    *)
(***************************************************************************)
HasVolume == "Volume" \in DOMAIN args.asset_df.cols

VolumeAt(i) == args.asset_df.cols["Volume"][i]

Rows == 1..Len(AssetPrices)

\* the rows at which both a price and a volume are present
BothPresent ==
  IF HasVolume THEN {i \in Rows : AssetPrices[i].k = "q" /\ VolumeAt(i).k = "q"} ELSE {}

NoVolumeData == ~HasVolume \/ \A i \in Rows : VolumeAt(i).k = "nan"

RECURSIVE TradedValue(_)
TradedValue(rows) ==
  IF rows = {} THEN Zero
  ELSE LET i == CHOOSE r \in rows : TRUE
       IN  QAdd(QMul(AssetPrices[i], VolumeAt(i)), TradedValue(rows \ {i}))

\* C12: avg_daily_dollar_vol is the arithmetic mean of price_i * volume_i over
\* exactly the timestamps at which both a price and a volume are present, and
\* 0 when the volume column is absent or entirely missing; the mean of no
\* terms (volume only where the price is missing) is NaN.
C12_DollarVolume ==
  (MetricsCalled /\ pc = "done") =>
    /\ NoVolumeData => result.avg_daily_dollar_vol = Zero
    /\ (~NoVolumeData /\ BothPresent # {}) =>
         result.avg_daily_dollar_vol =
           QDiv(TradedValue(BothPresent), Q(Cardinality(BothPresent), 1))
    /\ (~NoVolumeData /\ BothPresent = {}) => result.avg_daily_dollar_vol = NaN

C12_Witness ==
  /\ MetricsCalled
  /\ pc = "done"
  /\ Cardinality(BothPresent) = 1
  /\ \E i \in Rows : AssetPrices[i].k = "q" /\ VolumeAt(i).k = "nan"
  /\ \E i \in Rows : AssetPrices[i].k = "nan"
  /\ result.avg_daily_dollar_vol.k = "q"
  /\ result.avg_daily_dollar_vol # Zero

(***************************************************************************)
(* A process that calls compute_metrics several times.  The pandas it runs *)
(* on (args.pad) is the same for all its calls.  history keeps, per call,  *)
(* the inputs and the outcome.                                             *)
(***************************************************************************)
MaxCalls == 3

\* a mutant: a record cached across calls, returned on every other call
compute_metrics_call_stale(seen, a) ==
  IF Len(seen) % 2 = 1 THEN seen[Len(seen)].result
  ELSE compute_metrics(a.asset_df, a.bench_df, a.rf, a.pad)

\* m = metrics.compute_metrics(asset_df, bench_df, rf=args.rf): the call has
\* the calls made so far (seen) behind it and reads nothing they left
compute_metrics_call(seen, a) == compute_metrics(a.asset_df, a.bench_df, a.rf, a.pad)

CallPrices == {<<One, Q(2, 1), One>>, <<One, NaN, One>>, <<One>>}

CallInputs ==
  {[asset_df |-> AssetFrame(prices, FALSE, "full"),
    bench_df |-> BenchFrame(kind, prices),
    rf |-> rf] :
     prices \in CallPrices, kind \in {"none", "other"}, rf \in {Zero, Annual(Q(1, 100))}}

CallArgs(a, pad) ==
  [fn |-> "compute_metrics", asset_df |-> a.asset_df, bench_df |-> a.bench_df,
   rf |-> a.rf, pad |-> pad]

InitCalls ==
  /\ pc = "call"
  /\ \E a \in CallInputs, pad \in BOOLEAN : args = CallArgs(a, pad)
  /\ result = NoResult
  /\ NoSession

CallAndReturn ==
  /\ pc = "call"
  /\ args.fn = "compute_metrics"
  /\ result' = compute_metrics_call(history, args)
  /\ history' = Append(history, [args |-> args, result |-> result'])
  /\ pc' = "returned"
  /\ UNCHANGED <<args, CACHE, now, state>>

\* the caller goes on to its next call, with any inputs
CallAgain ==
  /\ pc = "returned"
  /\ Len(history) < MaxCalls
  /\ \E a \in CallInputs : args' = CallArgs(a, args.pad)
  /\ pc' = "call"
  /\ UNCHANGED <<result, history, CACHE, now, state>>

NextCalls == CallAndReturn \/ CallAgain

SpecCalls == InitCalls /\ [][NextCalls]_vars

SameInputs(a, b) ==
  /\ a.asset_df = b.asset_df
  /\ a.bench_df = b.bench_df
  /\ a.rf = b.rf

CACHE_TTL == 300

MAX_ATTEMPTS == 3

\* str.upper() on the characters of the model
UpperChar(c) == IF c = "a" THEN "A" ELSE c

upper(str) == [i \in 1..Len(str) |-> UpperChar(str[i])]

\* an exception object of the given type
Exception(type) == [k |-> "exception", type |-> type]

Raises(err) == [k |-> "raise", err |-> err]

Returns(df) == [k |-> "df", df |-> df]

\* a mutant: the first error is kept
on_error_first(last_err, e) == IF last_err = None THEN e ELSE last_err

\* except Exception as e: last_err = e
on_error(last_err, e) == e

\* sleep = (2 ** (attempt - 1)) + random.random() * 0.5, in whole seconds
Backoff(attempt) == 2 ^ (attempt - 1)

\* for attempt in range(1, 4): try tk.history(...) / except / else raise last_err
RECURSIVE download(_, _, _, _)
download(tk, attempt, last_err, slept) ==
  IF attempt > MAX_ATTEMPTS
  THEN [k |-> "raise", err |-> last_err, tried |-> MAX_ATTEMPTS, slept |-> slept]
  ELSE IF tk[attempt].k = "raise"
  THEN download(tk, attempt + 1, on_error(last_err, tk[attempt].err),
                slept + Backoff(attempt))
  ELSE [k |-> "df", df |-> tk[attempt].df, tried |-> attempt, slept |-> slept]

\* if "Adj Close" not in df.columns: df["Adj Close"] = df["Close"]
with_adj_close(df) ==
  IF "Adj Close" \in DOMAIN df.cols THEN df
  ELSE [df EXCEPT !.cols = [c \in DOMAIN df.cols \cup {"Adj Close"} |->
                              IF c = "Adj Close" THEN df.cols["Close"] ELSE df.cols[c]]]

\* meta["name"] = info.get("longName") or info.get("shortName") or ticker;
\* a failing fast_info and get_info leave the ticker as the name
meta_of(ticker, info) ==
  IF info = "raises" \/ info = "" THEN [name |-> ticker] ELSE [name |-> info]

Fetched(df, meta) == [k |-> "ok", df |-> df, meta |-> meta]

Raised(err) == [k |-> "raised", err |-> err]

\* fetch_price_and_meta(ticker, period, interval) called at time clock with the
\* cache as it is: the outcome (out), the downloads made (tried), the time the
\* call took (slept) and the cache it leaves.  No statement assigns _CACHE.
fetch_price_and_meta(ticker, period, interval, cache, clock, provider) ==
  LET key == <<upper(ticker), period, interval>>
      d == download(provider.tk, 1, None, 0)
  IN  IF Len(ticker) = 0
      THEN [out |-> Raised(Exception("ValueError")), tried |-> 0, slept |-> 0, cache |-> cache]
      ELSE IF key \in DOMAIN cache /\ clock - cache[key].ts < CACHE_TTL
      THEN [out |-> Fetched(cache[key].df, cache[key].meta),
            tried |-> 0, slept |-> 0, cache |-> cache]
      ELSE IF d.k = "raise"
      THEN [out |-> Raised(d.err), tried |-> d.tried, slept |-> d.slept, cache |-> cache]
      ELSE IF ~d.df.present \/ Len(d.df.index) = 0
      THEN [out |-> Raised(Exception("ValueError")), tried |-> d.tried, slept |-> d.slept,
            cache |-> cache]
      ELSE [out |-> Fetched(with_adj_close(d.df), meta_of(ticker, provider.info)),
            tried |-> d.tried, slept |-> d.slept, cache |-> cache]

(***************************************************************************)
(* A session of fetches: up to MaxFetches calls, time passing between      *)
(* them.  history has one entry per call: its key, the time it began, the  *)
(* outcomes of the downloads it made and its own outcome.                  *)
(***************************************************************************)
MaxFetches == 2

MaxClock == 310

Tickers == {<<>>, <<"a">>, <<"A">>}

Periods == {"1y"}

ProviderErrors == {Exception("RateLimit"), Exception("Timeout")}

Quotes == CloseFrame(Ticks(3, 1), <<One, Q(2, 1), One>>)

DownloadOutcomes ==
  {Raises(e) : e \in ProviderErrors} \cup {Returns(CloseFrame(<<>>, <<>>)), Returns(Quotes)}

\* what follows a download that returned is never asked for: one choice is enough
Providers ==
  {[tk |-> tk, info |-> "Name"] :
     tk \in {t \in [1..MAX_ATTEMPTS -> DownloadOutcomes] :
               \A a \in 1..MAX_ATTEMPTS - 1 : t[a].k = "df" => t[a + 1] = Returns(Quotes)}}

Idle == pc \in {"idle", "returned", "raised"}

InitFetch ==
  /\ pc = "idle"
  /\ args = [fn |-> "fetch_price_and_meta"]
  /\ result = NoResult
  /\ NoSession

Fetch ==
  /\ Idle
  /\ Len(history) < MaxFetches
  /\ \E ticker \in Tickers, period \in Periods, provider \in Providers :
       LET f == fetch_price_and_meta(ticker, period, "1d", CACHE, now, provider)
       IN  /\ args' = [fn |-> "fetch_price_and_meta", ticker |-> ticker,
                       period |-> period, interval |-> "1d"]
           /\ result' = f.out
           /\ CACHE' = f.cache
           /\ now' = now + f.slept
           /\ history' = Append(history,
                                [key |-> <<upper(ticker), period, "1d">>,
                                 began |-> now,
                                 downloads |-> SubSeq(provider.tk, 1, f.tried),
                                 out |-> f.out])
           /\ pc' = IF f.out.k = "ok" THEN "returned" ELSE "raised"
  /\ UNCHANGED state

\* time passes between two calls
Tick ==
  /\ Idle
  /\ \E d \in {CACHE_TTL - 1, CACHE_TTL} :
       /\ now + d <= MaxClock
       /\ now' = now + d
  /\ UNCHANGED <<pc, args, result, history, CACHE, state>>

NextFetch == Fetch \/ Tick

SpecFetch == InitFetch /\ [][NextFetch]_vars

\* C13: after a successful fetch for a key, any further fetch of the same key
\* less than 300 seconds later returns the cached data and metadata without
\* contacting the data provider.
C13_CacheWithinTtl ==
  \A i, j \in 1..Len(history) :
    (/\ i < j
     /\ history[i].out.k = "ok"
     /\ history[j].key = history[i].key
     /\ history[j].began - history[i].began < CACHE_TTL)
    => /\ history[j].downloads = <<>>
       /\ history[j].out = history[i].out

\* C14: on a cache miss, a call downloads at most 3 times; it stops at the
\* first download that does not raise; it fails with a provider error only if
\* all 3 downloads raised, and then with the error of the third.
C14_Retry ==
  \A i \in 1..Len(history) :
    LET h == history[i]
        n == Len(h.downloads)
    IN  /\ n <= 3
        /\ \A a \in 1..n : h.downloads[a].k # "raise" => a = n
        /\ (h.out.k = "raised" /\ h.out.err \in ProviderErrors) =>
             /\ n = 3
             /\ \A a \in 1..3 : h.downloads[a].k = "raise"
             /\ h.out.err = h.downloads[3].err
        /\ (n = 3 /\ \A a \in 1..3 : h.downloads[a].k = "raise") =>
             h.out = Raised(h.downloads[3].err)

C14_Witness ==
  \E i \in 1..Len(history) :
    /\ Len(history[i].downloads) = 3
    /\ \A a \in 1..3 : history[i].downloads[a].k = "raise"
    /\ history[i].downloads[1].err # history[i].downloads[3].err
    /\ history[i].out = Raised(history[i].downloads[3].err)

(***************************************************************************)
(* cli.py: the interactive menu.  A text is a sequence of characters, ""   *)
(* is <<>>.  state is the menu's dictionary; the frame of the running      *)
(* program (its locals) is in result; args is the argparse namespace.      *)
(***************************************************************************)
\* a mutant: the answer is taken as typed
strip_nothing(str) == str

\* str.strip(): leading and trailing blanks go
RECURSIVE strip(_)
strip(str) ==
  IF Len(str) = 0 THEN str
  ELSE IF str[1] = " " THEN strip(Tail(str))
  ELSE IF str[Len(str)] = " " THEN strip(SubSeq(str, 1, Len(str) - 1))
  ELSE str

\* Prompt.ask(..., default=d): an empty answer gives the default
ask(answer, default) == IF answer = <<>> THEN default ELSE answer

\* x or y, for texts
or_else(x, y) == IF x = <<>> THEN y ELSE x

\* choices= of the action prompt (lines 206-228)
Choices ==
  {"1", "2", "3", "4", "5", "6", "7", "8", "9", "0", "compare", "compare_period",
   "ticker", "period", "interval", "benchmark", "rf", "export", "run", "quit", "help"}

\* mapping.get(choice, choice) (lines 233-246)
mapping(choice) ==
  CASE choice = "1" -> "ticker"
    [] choice = "2" -> "period"
    [] choice = "3" -> "interval"
    [] choice = "4" -> "benchmark"
    [] choice = "5" -> "rf"
    [] choice = "6" -> "export"
    [] choice = "7" -> "compare"
    [] choice = "8" -> "compare_period"
    [] choice = "9" -> "run"
    [] choice = "0" -> "quit"
    [] choice = "h" -> "help"
    [] OTHER -> choice

\* A rate as typed, after lexing: blank, a number with or without a
\* trailing %, or something float() rejects.
Number(q) == [blank |-> FALSE, valid |-> TRUE, num |-> q, pct |-> FALSE]

Percent(q) == [blank |-> FALSE, valid |-> TRUE, num |-> q, pct |-> TRUE]

NotANumber == [blank |-> FALSE, valid |-> FALSE, num |-> Zero, pct |-> FALSE]

Blank == [blank |-> TRUE, valid |-> FALSE, num |-> Zero, pct |-> FALSE]

\* float(s.rstrip("%")) / 100.0, or v / 100.0 if v > 1.0 else v; what
\* float() rejects leaves the fallback
parse_rf(text, fallback) ==
  IF ~text.valid THEN fallback
  ELSE IF text.pct THEN QDiv(text.num, Q(100, 1))
  ELSE IF QLt(One, text.num) THEN QDiv(text.num, Q(100, 1))
  ELSE text.num

\* Prompt.ask(..., default=str(state["rf"]))
ask_rate(rate, rf) == IF rate.blank THEN Number(rf) ELSE rate

\* state = {...} (lines 164-173); no export path is "" here and None in args
menu_state(parsed_args) ==
  [ticker |-> <<>>,
   period |-> parsed_args.period,
   interval |-> parsed_args.interval,
   benchmark |-> parsed_args.benchmark,
   rf |-> parsed_args.rf,
   export |-> parsed_args.export,
   compare |-> parsed_args.compare,
   compare_period |-> parsed_args.compare_period]

\* ns = argparse.Namespace(...) (lines 291-300)
namespace(st) ==
  [ticker |-> st.ticker,
   period |-> st.period,
   interval |-> st.interval,
   benchmark |-> st.benchmark,
   rf |-> st.rf,
   export |-> st.export,
   compare |-> st.compare,
   compare_period |-> st.compare_period]

\* the state the dictionary has after one pass of the loop for the action,
\* the text typed at its prompt being val (an rf is typed as rate)
menu_update(st, action, val, rate) ==
  CASE action = "ticker" -> [st EXCEPT !.ticker = strip(or_else(ask(val, st.ticker), st.ticker))]
    [] action = "period" -> [st EXCEPT !.period = strip(or_else(ask(val, st.period), st.period))]
    [] action = "interval" ->
         [st EXCEPT !.interval = strip(or_else(ask(val, st.interval), st.interval))]
    [] action = "benchmark" ->
         [st EXCEPT !.benchmark = strip(or_else(ask(val, st.benchmark), st.benchmark))]
    [] action = "rf" -> [st EXCEPT !.rf = parse_rf(ask_rate(rate, st.rf), st.rf)]
    [] action = "export" -> [st EXCEPT !.export = strip(or_else(ask(val, st.export), <<>>))]
    [] action = "compare" -> [st EXCEPT !.compare = ~st.compare]
    [] action = "compare_period" ->
         [st EXCEPT !.compare_period =
                      strip(or_else(ask(val, st.compare_period), st.compare_period))]
    [] OTHER -> st

(***************************************************************************)
(* cli.py: main.  One action per step of main; each fetch is a whole call  *)
(* of fetch_price_and_meta against a provider chosen for it.  history has  *)
(* one entry per fetch: what it was for, its ticker and how it ended.      *)
(***************************************************************************)
Return(code) == [how |-> "return", code |-> code]

SystemExit(code) == [how |-> "SystemExit", code |-> code]

\* lines 63-70 and 98-103: a failed fetch of the asset ends the run with 2
on_asset(out) ==
  IF out.k = "ok" THEN [df |-> out.df, exit |-> None] ELSE [df |-> NoFrame, exit |-> Return(2)]

\* a mutant: only a ValueError of the benchmark fetch is survived
on_benchmark_strict(out) ==
  IF out.k = "ok" THEN [df |-> out.df, exit |-> None]
  ELSE IF out.err = Exception("ValueError") THEN [df |-> NoFrame, exit |-> None]
  ELSE [df |-> NoFrame, exit |-> Return(2)]

\* lines 72-77 and 104-108: except Exception: bench_df = None
on_benchmark(out) ==
  IF out.k = "ok" THEN [df |-> out.df, exit |-> None] ELSE [df |-> NoFrame, exit |-> None]

\* lines 79-83 and 109-113: a failed computation ends the run with 3
on_metrics(m) == IF m = ValueError THEN Return(3) ELSE None

P1Y == <<"1", "y">>

P3Y == <<"3", "y">>

I1D == <<"1", "d">>

GSPC == <<"^", "G">>

\* Path(args.export).suffix.lower(); a path ends in its extension
suffix(path) == IF Len(path) = 0 THEN "" ELSE path[Len(path)]

ParsedArgs ==
  {[ticker |-> t, period |-> P1Y, interval |-> I1D, benchmark |-> GSPC, rf |-> r,
    export |-> <<>>, compare |-> c, compare_period |-> P3Y] :
     t \in {<<>>, <<"A">>}, r \in {Number(Zero), NotANumber}, c \in BOOLEAN}

Locals(pad) ==
  [pad |-> pad, action |-> "", confirmed |-> FALSE,
   asset_df |-> NoFrame, bench_df |-> NoFrame, m |-> NoResult,
   asset_df2 |-> NoFrame, bench_df2 |-> NoFrame, m2 |-> NoResult,
   panels |-> 0, written |-> "", exit |-> None]

\* what the provider does during one fetch: quotes at once, quotes after one
\* error, a single quote, no rows, or three errors
ShortQuotes == CloseFrame(Ticks(1, 1), <<One>>)

MainProviders ==
  {[tk |-> tk, info |-> "Name"] :
     tk \in {<<Returns(Quotes), Returns(Quotes), Returns(Quotes)>>,
             <<Returns(ShortQuotes), Returns(Quotes), Returns(Quotes)>>,
             <<Returns(CloseFrame(<<>>, <<>>)), Returns(Quotes), Returns(Quotes)>>,
             <<Raises(Exception("RateLimit")), Raises(Exception("RateLimit")),
               Raises(Exception("Timeout"))>>}}

Answers(action) ==
  CASE action = "ticker" -> {<<>>, <<" ">>, <<" ", "A">>}
    [] action = "benchmark" -> {<<>>, <<" ">>}
    [] action = "export" -> {<<>>, <<"m", ".json">>}
    [] OTHER -> {<<>>}

\* the rates typed are 0, as a number or a percentage, or rejected: the daily
\* rate of the engine stays rational
Rates(action) == IF action = "rf" THEN {Blank, NotANumber, Percent(Zero)} ELSE {Blank}

InitMain ==
  /\ pc = "main"
  /\ args \in ParsedArgs
  /\ \E pad \in BOOLEAN : result = Locals(pad)
  /\ NoSession

\* lines 38-61: args.rf = _parse_rf(args.rf); if not args.ticker: the menu
Start ==
  /\ pc = "main"
  /\ args' = [args EXCEPT !.rf = parse_rf(args.rf, Zero)]
  /\ IF args.ticker = <<>>
     THEN /\ state' = menu_state(args')
          /\ pc' = "menu"
     ELSE /\ state' = state
          /\ pc' = "fetch_asset"
  /\ UNCHANGED <<result, history, CACHE, now>>

\* lines 186-306: one pass of the while loop
MenuPass(choice, val, rate, confirm) ==
  /\ pc = "menu"
  /\ LET action == mapping(choice)
     IN  /\ result' = [result EXCEPT !.action = action,
                                     !.confirmed = (action = "quit" /\ confirm),
                                     !.exit = IF action = "quit" /\ confirm
                                              THEN SystemExit(0) ELSE None]
         /\ state' = menu_update(state, action, val, rate)
         /\ args' = IF action = "run" /\ state.ticker # <<>> THEN namespace(state) ELSE args
         /\ pc' = CASE action = "run" /\ state.ticker # <<>> -> "fetch_asset"
                    [] action = "quit" /\ confirm -> "exit"
                    [] OTHER -> "menu"
  /\ UNCHANGED <<history, CACHE, now>>

Menu ==
  \E choice \in Choices :
    \E val \in Answers(mapping(choice)), rate \in Rates(mapping(choice)), confirm \in BOOLEAN :
      MenuPass(choice, val, rate, confirm)

FetchEntry(what, ticker, f) ==
  [what |-> what, ticker |-> ticker, ok |-> f.out.k = "ok", tried |-> f.tried]

\* lines 63-70
FetchAsset ==
  /\ pc = "fetch_asset"
  /\ \E provider \in MainProviders :
       LET f == fetch_price_and_meta(args.ticker, args.period, args.interval,
                                     CACHE, now, provider)
           h == on_asset(f.out)
       IN  /\ result' = [result EXCEPT !.asset_df = h.df, !.exit = h.exit]
           /\ pc' = IF h.exit = None THEN "fetch_bench" ELSE "exit"
           /\ history' = Append(history, FetchEntry("asset", args.ticker, f))
           /\ CACHE' = f.cache
           /\ now' = now + f.slept
  /\ UNCHANGED <<args, state>>

\* lines 72-77
FetchBenchmark ==
  /\ pc = "fetch_bench"
  /\ \E provider \in MainProviders :
       LET f == fetch_price_and_meta(args.benchmark, args.period, args.interval,
                                     CACHE, now, provider)
           h == on_benchmark(f.out)
       IN  /\ result' = [result EXCEPT !.bench_df = h.df, !.exit = h.exit]
           /\ pc' = IF h.exit = None THEN "compute" ELSE "exit"
           /\ history' = Append(history, FetchEntry("benchmark", args.benchmark, f))
           /\ CACHE' = f.cache
           /\ now' = now + f.slept
  /\ UNCHANGED <<args, state>>

\* lines 79-83
ComputeMetrics ==
  /\ pc = "compute"
  /\ \E m \in {compute_metrics(result.asset_df, result.bench_df, args.rf, result.pad)} :
       /\ result' = [result EXCEPT !.m = m, !.exit = on_metrics(m)]
       /\ pc' = IF m = ValueError THEN "exit"
                ELSE IF args.compare THEN "fetch_asset2" ELSE "report"
  /\ UNCHANGED <<args, history, CACHE, now, state>>

\* lines 98-103
FetchAsset2 ==
  /\ pc = "fetch_asset2"
  /\ \E provider \in MainProviders :
       LET f == fetch_price_and_meta(args.ticker, args.compare_period, args.interval,
                                     CACHE, now, provider)
           h == on_asset(f.out)
       IN  /\ result' = [result EXCEPT !.asset_df2 = h.df, !.exit = h.exit]
           /\ pc' = IF h.exit = None THEN "fetch_bench2" ELSE "exit"
           /\ history' = Append(history, FetchEntry("asset2", args.ticker, f))
           /\ CACHE' = f.cache
           /\ now' = now + f.slept
  /\ UNCHANGED <<args, state>>

\* lines 104-108
FetchBenchmark2 ==
  /\ pc = "fetch_bench2"
  /\ \E provider \in MainProviders :
       LET f == fetch_price_and_meta(args.benchmark, args.compare_period, args.interval,
                                     CACHE, now, provider)
           h == on_benchmark(f.out)
       IN  /\ result' = [result EXCEPT !.bench_df2 = h.df, !.exit = h.exit]
           /\ pc' = IF h.exit = None THEN "compute2" ELSE "exit"
           /\ history' = Append(history, FetchEntry("benchmark2", args.benchmark, f))
           /\ CACHE' = f.cache
           /\ now' = now + f.slept
  /\ UNCHANGED <<args, state>>

\* lines 109-113
ComputeMetrics2 ==
  /\ pc = "compute2"
  /\ \E m2 \in {compute_metrics(result.asset_df2, result.bench_df2, args.rf, result.pad)} :
       /\ result' = [result EXCEPT !.m2 = m2, !.exit = on_metrics(m2)]
       /\ pc' = IF m2 = ValueError THEN "exit" ELSE "report"
  /\ UNCHANGED <<args, history, CACHE, now, state>>

\* lines 124-155: the panel or the two panels are printed, the metrics are
\* written to the export path if it ends in .json or .csv; return 0
Report ==
  /\ pc = "report"
  /\ result' = [result EXCEPT
                  !.panels = IF args.compare THEN 2 ELSE 1,
                  !.written = IF suffix(args.export) \in {".json", ".csv"}
                              THEN suffix(args.export) ELSE "",
                  !.exit = Return(0)]
  /\ pc' = "exit"
  /\ UNCHANGED <<args, history, CACHE, now, state>>

NextMain ==
  \/ Start
  \/ Menu
  \/ FetchAsset
  \/ FetchBenchmark
  \/ ComputeMetrics
  \/ FetchAsset2
  \/ FetchBenchmark2
  \/ ComputeMetrics2
  \/ Report

SpecMain == InitMain /\ [][NextMain]_vars

(***************************************************************************)
(* Claims about main and the menu.                                         *)
(***************************************************************************)
Failed(what) == \E i \in 1..Len(history) : history[i].what = what /\ ~history[i].ok

NoBenchmarkFields(m) == m.beta = None /\ m.alpha = None /\ m.r2 = None

WithoutBenchmark(asset_df) == compute_metrics(asset_df, NoFrame, args.rf, result.pad)

\* how a run of main ends that has the same asset fetches and no benchmark
ExitWithoutBenchmark ==
  IF Failed("asset") THEN Return(2)
  ELSE IF WithoutBenchmark(result.asset_df) = ValueError THEN Return(3)
  ELSE IF ~args.compare THEN Return(0)
  ELSE IF Failed("asset2") THEN Return(2)
  ELSE IF WithoutBenchmark(result.asset_df2) = ValueError THEN Return(3)
  ELSE Return(0)

\* C15: a failed fetch of the benchmark never ends the run or changes the
\* exit code: the metrics are those of a call without benchmark (beta, alpha
\* and r2 no value), the report is printed, and the run ends as a run
\* without benchmark does.
C15_BenchmarkOptional ==
  /\ Failed("benchmark") =>
       /\ result.bench_df = NoFrame
       /\ result.m # NoResult =>
            /\ result.m = WithoutBenchmark(result.asset_df)
            /\ result.m # ValueError => NoBenchmarkFields(result.m)
  /\ Failed("benchmark2") =>
       /\ result.bench_df2 = NoFrame
       /\ result.m2 # NoResult =>
            /\ result.m2 = WithoutBenchmark(result.asset_df2)
            /\ result.m2 # ValueError => NoBenchmarkFields(result.m2)
  /\ (Failed("benchmark") \/ Failed("benchmark2")) =>
       /\ pc = "exit" => result.exit = ExitWithoutBenchmark
       /\ result.exit = Return(0) => result.panels = IF args.compare THEN 2 ELSE 1

C15_Witness ==
  /\ pc = "exit"
  /\ \E i \in 1..Len(history) :
       history[i].what = "benchmark" /\ ~history[i].ok /\ history[i].tried = 3
  /\ result.exit = Return(0)
  /\ result.panels = 1
  /\ result.m.annual_vol.k = "root"
  /\ NoBenchmarkFields(result.m)

Stripped(str) == Len(str) = 0 \/ (str[1] # " " /\ str[Len(str)] # " ")

AssetFetches == {i \in 1..Len(history) : history[i].what \in {"asset", "asset2"}}

\* the menu is left through 'run' with the ticker of its state, or through a
\* confirmed 'quit'
LeavesMenu ==
  (pc = "menu" /\ pc' # "menu") =>
    \/ /\ pc' = "fetch_asset"
       /\ result'.action = "run"
       /\ args'.ticker = state.ticker
       /\ args'.ticker # <<>>
       /\ Stripped(args'.ticker)
    \/ /\ pc' = "exit"
       /\ result'.action = "quit"
       /\ result'.confirmed
       /\ result'.exit = SystemExit(0)

\* a 'run' without ticker and an unconfirmed 'quit' change nothing
StaysInMenu ==
  (/\ pc = "menu"
   /\ \/ result'.action = "run" /\ state.ticker = <<>>
      \/ result'.action = "quit" /\ ~result'.confirmed)
  => /\ pc' = "menu"
     /\ state' = state
     /\ args' = args

\* C16: main never fetches the asset with an empty ticker: the menu returns
\* only through 'run' with a non-empty, stripped ticker or ends the process
\* through a confirmed 'quit'; a 'run' with an empty ticker and an unconfirmed
\* 'quit' leave the menu state unchanged and the loop running.
C16_MenuTicker ==
  /\ [](\A i \in AssetFetches : history[i].ticker # <<>>)
  /\ [](pc \in {"fetch_asset", "fetch_asset2"} => args.ticker # <<>>)
  /\ [][LeavesMenu /\ StaysInMenu]_vars

C16_Witness ==
  /\ pc = "fetch_bench"
  /\ result.action = "run"
  /\ state.ticker = <<"A">>
  /\ \E i \in AssetFetches : history[i].ticker = <<"A">>

(***************************************************************************)
(* report.py: _risk_grade, applied to the records compute_metrics returns. *)
(* annual_vol is NaN, 0 or a square root; the other two fields are floats. *)
(***************************************************************************)
\* v > c for c >= 0 and v one of NaN, a rational, or Root(sq)
Exceeds(v, c) ==
  CASE v.k = "root" -> QLt(Sq(c), v.sq)
    [] v.k = "q" -> QLt(c, v)
    [] OTHER -> FALSE

\* lines 23-26
vol_score(m) ==
  IF Exceeds(m.annual_vol, Q(1, 2)) THEN 2
  ELSE IF Exceeds(m.annual_vol, Q(1, 4)) THEN 1
  ELSE 0

\* a mutant: the thresholds are applied to the magnitude
drawdown_score_magnitude(m) ==
  IF FLt(Q(1, 2), m.max_drawdown) THEN 2
  ELSE IF FLt(Q(1, 4), m.max_drawdown) THEN 1
  ELSE 0

\* lines 27-30
drawdown_score(m) ==
  IF FLt(m.max_drawdown, Q(-1, 2)) THEN 2
  ELSE IF FLt(m.max_drawdown, Q(-1, 4)) THEN 1
  ELSE 0

\* lines 31-34
var_score(m) ==
  IF FLt(m.var_95, Q(-1, 20)) THEN 2
  ELSE IF FLt(m.var_95, Q(-1, 50)) THEN 1
  ELSE 0

risk_grade(m) ==
  LET score == vol_score(m) + drawdown_score(m) + var_score(m)
  IN  IF score >= 4 THEN <<"High", "red">>
      ELSE IF score >= 2 THEN <<"Medium", "yellow">>
      ELSE <<"Low", "green">>

(***************************************************************************)
(* Calls of compute_metrics followed by _risk_grade, as render_report      *)
(* makes them.  The frames are short ones of up to MaxRows prices and long *)
(* ones, of just enough rows for VaR to have a value: prices that          *)
(* alternate, that are constant, and that double over the first quarter.   *)
(* A price below zero makes max_drawdown return NaN (wealth stays at 0).   *)
(***************************************************************************)
GradeVals == {Q(-1, 1), One, Q(2, 1), Q(4, 1)}

LongRows == MIN_VAR_OBS + 1

LongPrices(kind) ==
  [i \in 1..LongRows |->
     CASE kind = "alternating" -> IF i % 2 = 1 THEN One ELSE Q(2, 1)
       [] kind = "rising" ->
            Q(2 ^ (IF i - 1 <= MIN_VAR_OBS \div 4 THEN i - 1 ELSE MIN_VAR_OBS \div 4), 1)
       [] OTHER -> Q(2, 1)]

GradePrices ==
  SeqsUpTo({NaN} \cup GradeVals, MaxRows)
    \cup {LongPrices(kind) : kind \in {"alternating", "rising", "constant"}}

InitGrade ==
  /\ pc = "call"
  /\ \E prices \in GradePrices, pad \in BOOLEAN :
       args = [fn |-> "compute_metrics",
               asset_df |-> CloseFrame(Ticks(Len(prices), 1), prices),
               bench_df |-> NoFrame,
               rf |-> Zero,
               pad |-> pad]
  /\ result = NoResult
  /\ NoSession

\* grade, color = _risk_grade(m)
CallRiskGrade ==
  /\ pc = "done"
  /\ result' = [m |-> result, grade |-> risk_grade(result)]
  /\ pc' = "graded"
  /\ UNCHANGED args
  /\ UNCHANGED session

NextGrade == CallComputeMetrics \/ CallRiskGrade

SpecGrade == InitGrade /\ [][NextGrade]_vars

\* C17: for every record compute_metrics returns, the drawdown terms of the
\* score contribute 0, the grade is that of the record with its max_drawdown
\* set to 0, and the grade is 'High' if and only if annual_vol > 0.5 and
\* var_95 < -0.05.
C17_GradeIgnoresDrawdown ==
  pc = "graded" =>
    /\ drawdown_score(result.m) = 0
    /\ result.grade = risk_grade([result.m EXCEPT !.max_drawdown = Zero])
    /\ (result.grade[1] = "High") <=>
         (Exceeds(result.m.annual_vol, Q(1, 2)) /\ FLt(result.m.var_95, Q(-1, 20)))

C17_Witness ==
  /\ pc = "graded"
  /\ result.grade = <<"High", "red">>
  /\ FLt(Q(1, 4), result.m.max_drawdown)
  /\ result.m.var_95.k = "q"

====
